---- MODULE Spec2Model ----
(***************************************************************************)
(* kithmonite: the payment processor.  A PaymentProcessor keeps, for every *)
(* client, an AccountLog (the Account and the history of the transactions  *)
(* applied to it); process(client_id, transaction) applies one transaction.*)
(* Money is a MonetaryValue, modelled as an integer number of 1/10000      *)
(* units.                                                                  *)
(***************************************************************************)
EXTENDS Integers, Sequences, FiniteSets, TLC

\* ------------------------------------------------------------------ bounds

\* process calls explored when any client may call
MaxCalls == 4
\* process calls explored when one client alone calls
MaxCallsOneClient == 5
\* rows read by a batch run over two clients
MaxRows == 3
\* rows read by a batch run whose amounts reach the largest Decimal
MaxRowsLargeRows == 4
\* rows read by a batch run of one client
MaxRowsOneClient == 3
\* process calls explored before accounts() is called
MaxCallsAccounts == 3
\* process calls explored when one client calls with a single amount
MaxCallsUnitAmount == 7

\* the largest Decimal (2^96 - 1 in rust_decimal), scaled down to the integers
\* of the model; it lies above every sum the amounts below can reach
DecimalMax == 100

\* the client ids, transaction ids and amounts the calls are drawn from; the
\* amounts are validated MonetaryValues (non-negative).  With Amounts and
\* UnitAmount no sum leaves the Decimal range; LargeAmounts reaches its end.
ClientIds      == {1, 2}
OneClient      == {1}
TransactionIds == {1, 2}
Amounts        == {0, 1, 2}
UnitAmount     == {1}
LargeAmounts   == {1, DecimalMax}

\* ------------------------------------------------------- Result / Option

ValueOk(v)  == [ok |-> TRUE, value |-> v]
ValueErr(e) == [ok |-> FALSE, error |-> e]

None    == [some |-> FALSE]
Some(v) == [some |-> TRUE, value |-> v]

\* --------------------------------------------------------- MonetaryValue

\* self + rhs, an error when the sum is negative.  The Decimal addition
\* self.0 + rhs.0 panics ("Addition overflowed") when the sum is beyond the
\* largest Decimal: the call does not return, which "Panic" stands for.
overdrawing_add(self, rhs) ==
    IF self + rhs > DecimalMax
    THEN ValueErr("Panic")
    ELSE IF self + rhs < 0
         THEN ValueErr("NegativeBalance")
         ELSE ValueOk(self + rhs)

\* self - rhs computed without the overdraft test
overdrawing_sub_unchecked(self, rhs) == ValueOk(self - rhs)

\* self - rhs, an error when self < rhs
overdrawing_sub(self, rhs) ==
    IF self < rhs
    THEN ValueErr("NegativeBalance")
    ELSE ValueOk(self - rhs)

\* A raw Decimal is counted in tenths of the smallest MonetaryValue step (a
\* fifth decimal digit), a MonetaryValue in whole steps.
\* Decimal::round_dp(4): to the nearest step, a tie to the even step.
round_dp(value) ==
    LET q == value \div 10
        r == value % 10 IN
    IF r > 5 \/ (r = 5 /\ q % 2 = 1) THEN q + 1 ELSE q

\* a conversion without the sign test
MonetaryValue_try_from_any_sign(value) == ValueOk(round_dp(value))

\* impl TryFrom<Decimal> for MonetaryValue
MonetaryValue_try_from(value) ==
    IF value < 0
    THEN ValueErr("NegativeBalance")
    ELSE ValueOk(round_dp(value))

\* impl From<MonetaryValue> for Decimal: the inner Decimal, in raw units
Decimal_from(value) == value * 10

\* Decimal's + operator: it panics ("Addition overflowed") when the sum is
\* beyond the largest Decimal
Decimal_add(lhs, rhs) ==
    IF lhs + rhs > Decimal_from(DecimalMax)
    THEN ValueErr("Panic")
    ELSE ValueOk(lhs + rhs)

\* ----------------------------------------------------------- Transaction

Deposit(amount)    == [tag |-> "Deposit", amount |-> amount]
Withdrawal(amount) == [tag |-> "Withdrawal", amount |-> amount]
Dispute            == [tag |-> "Dispute"]
Resolve            == [tag |-> "Resolve"]
Chargeback         == [tag |-> "Chargeback"]

TransactionNew(id, kind) == [id |-> id, kind |-> kind]

\* cli::TransactionRow
TransactionRow(type, amount, client, tx) ==
    [type |-> type, amount |-> amount, client |-> client, tx |-> tx]

\* impl TryFrom<TransactionRow> for Transaction
Transaction_try_from(row) ==
    IF row.type \in {"Deposit", "Withdrawal"}
    THEN IF ~row.amount.some
         THEN ValueErr("Other")
         ELSE LET value == MonetaryValue_try_from(row.amount.value) IN
              IF ~value.ok
              THEN ValueErr("Other")
              ELSE ValueOk(TransactionNew(row.tx,
                       IF row.type = "Deposit"
                       THEN Deposit(value.value)
                       ELSE Withdrawal(value.value)))
    ELSE ValueOk(TransactionNew(row.tx, [tag |-> row.type]))

\* --------------------------------------------------------------- Account

AccountNew(client_id) ==
    [client_id |-> client_id, available |-> 0, held |-> 0, locked |-> FALSE]

\* An Account operation takes &mut self: it yields the account as the call
\* leaves it, together with the Result it returns.
Outcome(account, result) == [account |-> account, result |-> result]

\* a lock test that lets every account through
check_lock_open(self) == "Ok"

check_lock(self) == IF self.locked THEN "AccountLocked" ELSE "Ok"

deposit(self, amount) ==
    IF check_lock(self) # "Ok" THEN Outcome(self, check_lock(self))
    ELSE LET sum == overdrawing_add(self.available, amount) IN
         IF ~sum.ok THEN Outcome(self, sum.error)
         ELSE Outcome([self EXCEPT !.available = sum.value], "Ok")

\* a withdrawal that counts the held funds as spendable
withdraw_from_total(self, amount) ==
    IF check_lock(self) # "Ok" THEN Outcome(self, check_lock(self))
    ELSE LET diff == overdrawing_sub(self.available + self.held, amount) IN
         IF ~diff.ok THEN Outcome(self, diff.error)
         ELSE Outcome([self EXCEPT !.available = self.available - amount], "Ok")

withdraw(self, amount) ==
    IF check_lock(self) # "Ok" THEN Outcome(self, check_lock(self))
    ELSE LET diff == overdrawing_sub(self.available, amount) IN
         IF ~diff.ok THEN Outcome(self, diff.error)
         ELSE Outcome([self EXCEPT !.available = diff.value], "Ok")

\* Account::dispute, which the processor calls as hold
hold(self, disputed_amount) ==
    IF check_lock(self) # "Ok" THEN Outcome(self, check_lock(self))
    ELSE LET diff == overdrawing_sub(self.available, disputed_amount) IN
         IF ~diff.ok THEN Outcome(self, diff.error)
         ELSE LET s1  == [self EXCEPT !.available = diff.value]
                  sum == overdrawing_add(s1.held, disputed_amount) IN
              IF ~sum.ok THEN Outcome(s1, sum.error)
              ELSE Outcome([s1 EXCEPT !.held = sum.value], "Ok")

\* a release that credits available and leaves held as it was
release_keep_held(self, disputed_amount) ==
    IF check_lock(self) # "Ok" THEN Outcome(self, check_lock(self))
    ELSE LET sum == overdrawing_add(self.available, disputed_amount) IN
         IF ~sum.ok THEN Outcome(self, sum.error)
         ELSE Outcome([self EXCEPT !.available = sum.value], "Ok")

\* a release that credits available before it tests the lock
release_before_lock(self, disputed_amount) ==
    LET sum == overdrawing_add(self.available, disputed_amount) IN
    IF ~sum.ok THEN Outcome(self, sum.error)
    ELSE LET s1 == [self EXCEPT !.available = sum.value] IN
         IF check_lock(s1) # "Ok" THEN Outcome(s1, check_lock(s1))
         ELSE LET diff == overdrawing_sub(s1.held, disputed_amount) IN
              IF ~diff.ok THEN Outcome(s1, diff.error)
              ELSE Outcome([s1 EXCEPT !.held = diff.value], "Ok")

\* Account::resolve, which the processor calls as release.  available is
\* assigned before held is tested.
release(self, disputed_amount) ==
    IF check_lock(self) # "Ok" THEN Outcome(self, check_lock(self))
    ELSE LET sum == overdrawing_add(self.available, disputed_amount) IN
         IF ~sum.ok THEN Outcome(self, sum.error)
         ELSE LET s1   == [self EXCEPT !.available = sum.value]
                  diff == overdrawing_sub(s1.held, disputed_amount) IN
              IF ~diff.ok THEN Outcome(s1, diff.error)
              ELSE Outcome([s1 EXCEPT !.held = diff.value], "Ok")

\* a chargeback that tests the lock first, like the other operations
chargeback_gated(self, amount) ==
    IF check_lock(self) # "Ok" THEN Outcome(self, check_lock(self))
    ELSE LET s1   == [self EXCEPT !.locked = TRUE]
             diff == overdrawing_sub(s1.held, amount) IN
         IF ~diff.ok THEN Outcome(s1, diff.error)
         ELSE Outcome([s1 EXCEPT !.held = diff.value], "Ok")

\* a chargeback that locks the account once held has been reduced
chargeback_lock_last(self, amount) ==
    LET diff == overdrawing_sub(self.held, amount) IN
    IF ~diff.ok THEN Outcome(self, diff.error)
    ELSE Outcome([self EXCEPT !.held = diff.value, !.locked = TRUE], "Ok")

\* locked is set before held is tested
chargeback(self, amount) ==
    LET s1   == [self EXCEPT !.locked = TRUE]
        diff == overdrawing_sub(s1.held, amount) IN
    IF ~diff.ok THEN Outcome(s1, diff.error)
    ELSE Outcome([s1 EXCEPT !.held = diff.value], "Ok")

\* from_transactions: the amount a Dispute, Resolve or Chargeback acts on is
\* that of the first Deposit with its id among all the client's transactions.
disputed_amount(transactions, transaction) ==
    LET deposits == {i \in 1..Len(transactions) :
                        /\ transactions[i].id = transaction.id
                        /\ transactions[i].kind.tag = "Deposit"} IN
    IF transaction.kind.tag \in {"Dispute", "Resolve", "Chargeback"}
       /\ deposits # {}
    THEN Some(transactions[CHOOSE i \in deposits : \A j \in deposits : i <= j].kind.amount)
    ELSE None

\* from_transactions: the arm of a Deposit or Withdrawal drops the error of
\* the operation (let _ =)
fold_arm_ignore(out) ==
    Outcome(out.account, IF out.result = "Panic" THEN "Panic" ELSE "Ok")

\* from_transactions: the arm of a Dispute, Resolve or Chargeback returns
\* the error of the operation, wrapped
fold_arm(out) ==
    Outcome(out.account, IF out.result \in {"Ok", "Panic"} THEN out.result ELSE "Other")

\* from_transactions: the closure of the try_fold, for one transaction.  The
\* result of a deposit or a withdrawal is dropped (let _ =).
fold_transaction(transactions, account, transaction) ==
    LET amount == disputed_amount(transactions, transaction)
        kind   == transaction.kind IN
    CASE kind.tag = "Deposit" ->
            fold_arm_ignore(deposit(account, kind.amount))
      [] kind.tag = "Withdrawal" ->
            fold_arm_ignore(withdraw(account, kind.amount))
      [] kind.tag = "Dispute" ->
            IF amount.some THEN fold_arm(hold(account, amount.value))
            ELSE Outcome(account, "Ok")
      [] kind.tag = "Resolve" ->
            IF amount.some THEN fold_arm(release(account, amount.value))
            ELSE Outcome(account, "Ok")
      [] kind.tag = "Chargeback" ->
            IF amount.some THEN fold_arm(chargeback(account, amount.value))
            ELSE Outcome(account, "Ok")

RECURSIVE try_fold(_, _, _)
\* from_transactions: the try_fold from transaction i on; the first error
\* ends it
try_fold(transactions, i, account) ==
    IF i > Len(transactions)
    THEN ValueOk(account)
    ELSE LET out == fold_transaction(transactions, account, transactions[i]) IN
         IF out.result # "Ok"
         THEN ValueErr(out.result)
         ELSE try_fold(transactions, i + 1, out.account)

\* Account::from_transactions
from_transactions(client_id, transactions) ==
    try_fold(transactions, 1, AccountNew(client_id))

\* ------------------------------------------------------------ AccountLog

AccountLogNew(client_id) == [state |-> AccountNew(client_id), history |-> << >>]

\* ------------------------------------------------------ PaymentProcessor

PaymentProcessorNew == << >>

\* history.iter().any(|tx| tx.id == id && matches!(tx.kind, Dispute)), with the
\* kind test left out
dispute_exists_any_kind(history, id) ==
    \E i \in 1..Len(history) : history[i].id = id

\* a dispute test that never finds a record
dispute_exists_never(history, id) == FALSE

\* history.iter().any(|tx| tx.id == id && matches!(tx.kind, Dispute))
dispute_exists(history, id) ==
    \E i \in 1..Len(history) :
        history[i].id = id /\ history[i].kind.tag = "Dispute"

\* the first Deposit with the id, skipping records of other kinds
disputed_transaction_first_deposit(history, id) ==
    LET at == {i \in 1..Len(history) :
                 history[i].id = id /\ history[i].kind.tag = "Deposit"} IN
    IF at = {} THEN None
    ELSE Some(history[CHOOSE i \in at : \A j \in at : i <= j])

\* history.iter().find(|tx| tx.id == id): the first record with the id
disputed_transaction(history, id) ==
    LET at == {i \in 1..Len(history) : history[i].id = id} IN
    IF at = {} THEN None
    ELSE Some(history[CHOOSE i \in at : \A j \in at : i <= j])

\* What a match arm leaves behind: the AccountLog and the value returned.
Arm(state, history, result) ==
    [log |-> [state |-> state, history |-> history], result |-> result]

\* the push made before the ? has looked at the result of the operation
ApplyAndPush_unconditional(account, out, transaction) ==
    Arm(out.account, Append(account.history, transaction), out.result)

\* account.state.op(..)?; account.history.push(transaction);
ApplyAndPush(account, out, transaction) ==
    IF out.result # "Ok"
    THEN Arm(out.account, account.history, out.result)
    ELSE Arm(out.account, Append(account.history, transaction), "Ok")

DepositArm(account, transaction) ==
    ApplyAndPush(account, deposit(account.state, transaction.kind.amount), transaction)

WithdrawalArm(account, transaction) ==
    ApplyAndPush(account, withdraw(account.state, transaction.kind.amount), transaction)

\* a Dispute arm that records the Dispute also when it finds no Deposit
DisputeArm_record_any(account, transaction) ==
    IF dispute_exists(account.history, transaction.id)
    THEN Arm(account.state, account.history, "DisputeAlreadyExists")
    ELSE LET found == disputed_transaction(account.history, transaction.id) IN
         IF found.some /\ found.value.kind.tag = "Deposit"
         THEN ApplyAndPush(account, hold(account.state, found.value.kind.amount), transaction)
         ELSE Arm(account.state, Append(account.history, transaction), "Ok")

DisputeArm(account, transaction) ==
    IF dispute_exists(account.history, transaction.id)
    THEN Arm(account.state, account.history, "DisputeAlreadyExists")
    ELSE LET found == disputed_transaction(account.history, transaction.id) IN
         IF found.some /\ found.value.kind.tag = "Deposit"
         THEN ApplyAndPush(account, hold(account.state, found.value.kind.amount), transaction)
         ELSE Arm(account.state, account.history, "Ok")

ResolveArm(account, transaction) ==
    IF ~dispute_exists(account.history, transaction.id)
    THEN Arm(account.state, account.history, "NoDispute")
    ELSE LET found == disputed_transaction(account.history, transaction.id) IN
         IF found.some /\ found.value.kind.tag = "Deposit"
         THEN ApplyAndPush(account, release(account.state, found.value.kind.amount), transaction)
         ELSE Arm(account.state, account.history, "Ok")

ChargebackArm(account, transaction) ==
    IF ~dispute_exists(account.history, transaction.id)
    THEN Arm(account.state, account.history, "NoDispute")
    ELSE LET found == disputed_transaction(account.history, transaction.id) IN
         IF found.some /\ found.value.kind.tag = "Deposit"
         THEN ApplyAndPush(account, chargeback(account.state, found.value.kind.amount), transaction)
         ELSE Arm(account.state, account.history, "Ok")

\* an entry that hands a new client the AccountLog of a client already known
entry_or_insert_shared(accts, client_id) ==
    IF client_id \in DOMAIN accts
    THEN accts
    ELSE IF DOMAIN accts = {}
         THEN client_id :> AccountLogNew(client_id)
         ELSE accts @@ (client_id :> accts[CHOOSE c \in DOMAIN accts : TRUE])

\* self.accounts.entry(client_id).or_insert_with(|| AccountLog::new(client_id))
entry_or_insert(accts, client_id) ==
    IF client_id \in DOMAIN accts
    THEN accts
    ELSE accts @@ (client_id :> AccountLogNew(client_id))

\* PaymentProcessor::process: the map after the call and the value returned
process(accts, client_id, transaction) ==
    LET logs    == entry_or_insert(accts, client_id)
        account == logs[client_id]
        out     == CASE transaction.kind.tag = "Deposit"    -> DepositArm(account, transaction)
                     [] transaction.kind.tag = "Withdrawal" -> WithdrawalArm(account, transaction)
                     [] transaction.kind.tag = "Dispute"    -> DisputeArm(account, transaction)
                     [] transaction.kind.tag = "Resolve"    -> ResolveArm(account, transaction)
                     [] transaction.kind.tag = "Chargeback" -> ChargebackArm(account, transaction)
    IN  [accounts |-> [logs EXCEPT ![client_id] = out.log], result |-> out.result]

\* the ways of putting the members of a set in a row
Orders(S) ==
    {f \in [1..Cardinality(S) -> S] :
        \A i, j \in 1..Cardinality(S) : f[i] = f[j] => i = j}

\* an accounts() that leaves out the clients with no transaction applied
into_accounts_applied(accts) ==
    LET kept == {c \in DOMAIN accts : accts[c].history # << >>} IN
    {[i \in 1..Cardinality(kept) |-> accts[order[i]].state] : order \in Orders(kept)}

\* PaymentProcessor::accounts: self.accounts.into_iter().map(|(_, log)| log.state).
\* A HashMap iterates in no particular order: the rows it can yield.
into_accounts(accts) ==
    {[i \in 1..Cardinality(DOMAIN accts) |-> accts[order[i]].state] :
        order \in Orders(DOMAIN accts)}

\* ------------------------------------------------------------- batch run
\* accounts_from_transactions: the closure of the try_fold over the rows.
\* The client's entry is made before the row is validated.
index_row(index, row) ==
    LET entry == IF row.client \in DOMAIN index THEN index[row.client] ELSE << >>
        transaction == Transaction_try_from(row) IN
    [c \in DOMAIN index \cup {row.client} |->
        IF c = row.client
        THEN IF transaction.ok THEN Append(entry, transaction.value) ELSE entry
        ELSE index[c]]

\* accounts_from_transactions: from_transactions of every client, collected
\* into a Result<Vec<_>, Error>, which is the first error met.  The map is
\* visited in one of its orders.
collect_accounts(index, order) ==
    LET built == [i \in DOMAIN order |-> from_transactions(order[i], index[order[i]])]
        failed == {i \in DOMAIN order : ~built[i].ok} IN
    IF failed = {}
    THEN ValueOk([i \in DOMAIN order |-> built[i].value])
    ELSE ValueErr(built[CHOOSE i \in failed : \A j \in failed : i <= j].error)

\* an Output whose total is the available funds alone
Output_total_available(account) ==
    IF ~Decimal_add(Decimal_from(account.available), Decimal_from(account.held)).ok
    THEN "Panic"
    ELSE [client    |-> account.client_id,
          available |-> Decimal_from(account.available),
          held      |-> Decimal_from(account.held),
          total     |-> Decimal_from(account.available),
          locked    |-> account.locked]

\* impl From<Account> for Output.  total is available + held, computed with
\* Decimal's +: the conversion panics when the sum overflows.
Output(account) ==
    LET total == Decimal_add(Decimal_from(account.available),
                             Decimal_from(account.held)) IN
    IF ~total.ok
    THEN "Panic"
    ELSE [client    |-> account.client_id,
          available |-> Decimal_from(account.available),
          held      |-> Decimal_from(account.held),
          total     |-> total.value,
          locked    |-> account.locked]

\* main: what the run has written, and whether the writing ended (Ok) or
\* panicked
Written(rows, end) == [some |-> TRUE, value |-> rows, result |-> end]

\* the rows of a batch of two clients: deposits and withdrawals of one unit
\* (1.0000 is ten raw units) and disputes, resolves and chargebacks
BatchRows ==
    {TransactionRow(type, Some(10), client, tx) :
        type \in {"Deposit", "Withdrawal"}, client \in ClientIds, tx \in TransactionIds}
    \cup
    {TransactionRow(type, None, client, tx) :
        type \in {"Dispute", "Resolve", "Chargeback"}, client \in ClientIds,
        tx \in TransactionIds}

\* rows whose amounts reach the largest Decimal: deposits of one unit and of
\* the largest Decimal, withdrawals of one unit, disputes, resolves and
\* chargebacks for one client, and a deposit of one unit for another
LargeRows ==
    {TransactionRow("Deposit", Some(Decimal_from(amount)), 1, tx) :
        amount \in LargeAmounts, tx \in TransactionIds}
    \cup
    {TransactionRow("Withdrawal", Some(10), 1, tx) : tx \in TransactionIds}
    \cup
    {TransactionRow(type, None, 1, tx) :
        type \in {"Dispute", "Resolve", "Chargeback"}, tx \in TransactionIds}
    \cup
    {TransactionRow("Deposit", Some(10), 2, 1)}

\* the amount field of a row: missing, negative, zero, a whole step, a tie
RowAmounts == {None, Some(-10), Some(0), Some(10), Some(15)}

\* the rows of one client and one transaction id with every amount field
AmountRows ==
    {TransactionRow(type, amount, 1, 1) :
        type \in {"Deposit", "Withdrawal"}, amount \in RowAmounts}
    \cup
    {TransactionRow(type, amount, 1, 1) :
        type \in {"Dispute", "Resolve", "Chargeback"}, amount \in {None, Some(10)}}

\* ----------------------------------------------------------------- state

VARIABLES
    accounts,   \* PaymentProcessor.accounts: ClientId -> AccountLog, known clients only
    result,     \* the value the last process call returned ("None" before any call);
                \* a TransactionError is named by the Account error it wraps
    call,       \* the arguments of the last process call
    before,     \* the AccountLog the last call obtained from the map on entry
                \* (processor.rs 54-57), before the match ran
    calls,      \* number of process calls made
    snapshots,  \* what accounts() yielded, once it has consumed the processor
    transactions_index, \* batch run: the transactions kept, by client
    row,                \* batch run: the last row read
    rows_read,          \* batch run: number of rows read
    client_accounts,    \* batch run: what accounts_from_transactions returned
    output              \* batch run: the rows written

batch == <<transactions_index, row, rows_read, client_accounts, output>>

vars == <<accounts, result, call, before, calls, snapshots, batch>>

NoCall == [client_id |-> 0, transaction |-> TransactionNew(0, [tag |-> "None"])]

NoRow == TransactionRow("None", None, 0, 0)

Init ==
    /\ accounts = PaymentProcessorNew
    /\ result = "None"
    /\ call = NoCall
    /\ before = AccountLogNew(0)
    /\ calls = 0
    /\ snapshots = None
    /\ transactions_index = << >>
    /\ row = NoRow
    /\ rows_read = 0
    /\ client_accounts = None
    /\ output = None

\* One call process(client_id, transaction); after a panic, or once
\* accounts() has consumed the processor, there is no further call.
Process(client_id, transaction) ==
    /\ result # "Panic"
    /\ ~snapshots.some
    /\ snapshots' = snapshots
    /\ UNCHANGED batch
    /\ LET r == process(accounts, client_id, transaction) IN
         /\ accounts' = r.accounts
         /\ result' = r.result
    /\ call' = [client_id |-> client_id, transaction |-> transaction]
    /\ before' = entry_or_insert(accounts, client_id)[client_id]
    /\ calls' = calls + 1

ProcessDeposit(clients, budget) ==
    \E c \in clients, id \in TransactionIds, a \in Amounts :
        /\ calls < budget
        /\ Process(c, TransactionNew(id, Deposit(a)))

ProcessWithdrawal(clients, budget) ==
    \E c \in clients, id \in TransactionIds, a \in Amounts :
        /\ calls < budget
        /\ Process(c, TransactionNew(id, Withdrawal(a)))

ProcessDispute(clients, budget) ==
    \E c \in clients, id \in TransactionIds :
        /\ calls < budget
        /\ Process(c, TransactionNew(id, Dispute))

ProcessResolve(clients, budget) ==
    \E c \in clients, id \in TransactionIds :
        /\ calls < budget
        /\ Process(c, TransactionNew(id, Resolve))

ProcessChargeback(clients, budget) ==
    \E c \in clients, id \in TransactionIds :
        /\ calls < budget
        /\ Process(c, TransactionNew(id, Chargeback))

\* Any client calls process.
Next ==
    \/ ProcessDeposit(ClientIds, MaxCalls)
    \/ ProcessWithdrawal(ClientIds, MaxCalls)
    \/ ProcessDispute(ClientIds, MaxCalls)
    \/ ProcessResolve(ClientIds, MaxCalls)
    \/ ProcessChargeback(ClientIds, MaxCalls)

Spec == Init /\ [][Next]_vars

\* One client calls process: the same calls, followed further.
NextOneClient ==
    \/ ProcessDeposit(OneClient, MaxCallsOneClient)
    \/ ProcessWithdrawal(OneClient, MaxCallsOneClient)
    \/ ProcessDispute(OneClient, MaxCallsOneClient)
    \/ ProcessResolve(OneClient, MaxCallsOneClient)
    \/ ProcessChargeback(OneClient, MaxCallsOneClient)

SpecOneClient == Init /\ [][NextOneClient]_vars

\* The Deposit and Withdrawal calls with the amounts drawn from a given set.
ProcessDepositOf(clients, amounts, budget) ==
    \E c \in clients, id \in TransactionIds, a \in amounts :
        /\ calls < budget
        /\ Process(c, TransactionNew(id, Deposit(a)))

ProcessWithdrawalOf(clients, amounts, budget) ==
    \E c \in clients, id \in TransactionIds, a \in amounts :
        /\ calls < budget
        /\ Process(c, TransactionNew(id, Withdrawal(a)))

\* One client calls process with a single amount: the calls followed further
\* still, far enough for two disputes to be open and settled in turn.
NextUnitAmount ==
    \/ ProcessDepositOf(OneClient, UnitAmount, MaxCallsUnitAmount)
    \/ ProcessWithdrawalOf(OneClient, UnitAmount, MaxCallsUnitAmount)
    \/ ProcessDispute(OneClient, MaxCallsUnitAmount)
    \/ ProcessResolve(OneClient, MaxCallsUnitAmount)
    \/ ProcessChargeback(OneClient, MaxCallsUnitAmount)

SpecUnitAmount == Init /\ [][NextUnitAmount]_vars

\* One client calls process with amounts up to the largest Decimal.
NextLargeAmounts ==
    \/ ProcessDepositOf(OneClient, LargeAmounts, MaxCalls)
    \/ ProcessWithdrawalOf(OneClient, LargeAmounts, MaxCalls)
    \/ ProcessDispute(OneClient, MaxCalls)
    \/ ProcessResolve(OneClient, MaxCalls)
    \/ ProcessChargeback(OneClient, MaxCalls)

SpecLargeAmounts == Init /\ [][NextLargeAmounts]_vars

\* accounts(self): the processor is consumed and yields its accounts.
Accounts ==
    /\ result # "Panic"
    /\ ~snapshots.some
    /\ \E yielded \in into_accounts(accounts) : snapshots' = Some(yielded)
    /\ UNCHANGED <<accounts, result, call, before, calls, batch>>

\* Any client calls process, and accounts() ends the run.
NextAccounts ==
    \/ ProcessDeposit(ClientIds, MaxCallsAccounts)
    \/ ProcessWithdrawal(ClientIds, MaxCallsAccounts)
    \/ ProcessDispute(ClientIds, MaxCallsAccounts)
    \/ ProcessResolve(ClientIds, MaxCallsAccounts)
    \/ ProcessChargeback(ClientIds, MaxCallsAccounts)
    \/ Accounts

SpecAccounts == Init /\ [][NextAccounts]_vars

\* main: one row of the input goes through the closure of
\* accounts_from_transactions.
ReadRow(rows, budget) ==
    /\ rows_read < budget
    /\ ~client_accounts.some
    /\ \E r \in rows :
          /\ row' = r
          /\ transactions_index' = index_row(transactions_index, r)
    /\ rows_read' = rows_read + 1
    /\ UNCHANGED <<accounts, result, call, before, calls, snapshots,
                   client_accounts, output>>

\* accounts_from_transactions, once the rows are read: the accounts are
\* built from the index.
BuildAccounts ==
    /\ ~client_accounts.some
    /\ \E order \in Orders(DOMAIN transactions_index) :
          client_accounts' = Some(collect_accounts(transactions_index, order))
    /\ UNCHANGED <<accounts, result, call, before, calls, snapshots,
                   transactions_index, row, rows_read, output>>

\* main: with Ok(accounts), the accounts are converted to Output and written
\* one after the other (the map is lazy); the first conversion that panics
\* ends the program, the rows before it being written.  With an Err, main
\* returns it and nothing is written.
WriteOutput ==
    /\ client_accounts.some
    /\ client_accounts.value.ok
    /\ ~output.some
    /\ LET built    == client_accounts.value.value
           panics   == {i \in DOMAIN built :
                          ~Decimal_add(Decimal_from(built[i].available),
                                       Decimal_from(built[i].held)).ok}
           written  == IF panics = {}
                       THEN Len(built)
                       ELSE (CHOOSE i \in panics : \A j \in panics : i <= j) - 1
       IN output' = Written([i \in 1..written |-> Output(built[i])],
                            IF panics = {} THEN "Ok" ELSE "Panic")
    /\ UNCHANGED <<accounts, result, call, before, calls, snapshots,
                   transactions_index, row, rows_read, client_accounts>>

\* A batch run over the rows of two clients.
NextBatch ==
    \/ ReadRow(BatchRows, MaxRows)
    \/ BuildAccounts
    \/ WriteOutput

SpecBatch == Init /\ [][NextBatch]_vars

\* A batch run over rows with every amount field.
NextAmountRows ==
    \/ ReadRow(AmountRows, MaxRowsOneClient)
    \/ BuildAccounts
    \/ WriteOutput

SpecAmountRows == Init /\ [][NextAmountRows]_vars

\* A batch run over rows whose amounts reach the largest Decimal.
NextLargeRows ==
    \/ ReadRow(LargeRows, MaxRowsLargeRows)
    \/ BuildAccounts
    \/ WriteOutput

SpecLargeRows == Init /\ [][NextLargeRows]_vars

\* ---------------------------------------------------------------- claims

\* What the claims speak of: the client of the last call, its transaction,
\* and that client's AccountLog as the call left it.
Caller == call.client_id
Tx     == call.transaction
Kind   == call.transaction.kind.tag
After  == accounts[call.client_id]

\* the history holds a record of the given kind with the given id
HasRecord(history, id, tag) ==
    \E i \in 1..Len(history) : history[i].id = id /\ history[i].kind.tag = tag

\* the history holds a record with the given id
HasId(history, id) == \E i \in 1..Len(history) : history[i].id = id

\* the first record of the history that carries the id
Referenced(history, id) ==
    history[CHOOSE i \in 1..Len(history) :
               /\ history[i].id = id
               /\ \A j \in 1..(i - 1) : history[j].id # id]

\* the id refers to a Deposit: the first record carrying it is one
RefersToDeposit(history, id) ==
    HasId(history, id) /\ Referenced(history, id).kind.tag = "Deposit"

\* the call changed neither the account nor the history
Unchanged == After = before

\* the call appended its transaction to the history
Recorded == After.history = Append(before.history, Tx)

\* C1: whenever process returns a NegativeBalance error, the client's account
\* is what it was before the call and the transaction is not in the history.
C1_NegativeBalanceChangesNothing ==
    result = "NegativeBalance" => Unchanged

\* C2: in every reachable state every client's available and held are >= 0.
C2_BalancesNeverNegative ==
    \A c \in DOMAIN accounts :
        accounts[c].state.available >= 0 /\ accounts[c].state.held >= 0

\* C2 witness: a withdrawal larger than a positive available balance was asked
\* for after funds were held.
C2_Witness ==
    /\ Kind = "Withdrawal"
    /\ Tx.kind.amount > before.state.available
    /\ before.state.held > 0
    /\ result = "NegativeBalance"

\* the Dispute of the id has been settled by a later Resolve or Chargeback
Settled(history, id) ==
    \E i, j \in 1..Len(history) :
        /\ i < j
        /\ history[i].id = id /\ history[i].kind.tag = "Dispute"
        /\ history[j].id = id /\ history[j].kind.tag \in {"Resolve", "Chargeback"}

\* C3: a Resolve or Chargeback of an id whose Dispute has already been settled
\* fails with NoDispute and changes neither the account nor the history.
C3_SettledDisputeIsClosed ==
    (Kind \in {"Resolve", "Chargeback"} /\ Settled(before.history, Tx.id))
        => (result = "NoDispute" /\ Unchanged)

\* a Chargeback call has succeeded for the account
ChargedBack(log) ==
    \E i \in 1..Len(log.history) : log.history[i].kind.tag = "Chargeback"

\* C4: once a Chargeback has succeeded the account stays locked, every later
\* Deposit or Withdrawal fails with AccountLocked, and so does every later
\* Dispute or Resolve that reaches hold or release.
C4_LockedForGood ==
    [][ /\ (result' = "Ok" /\ call'.transaction.kind.tag = "Chargeback")
              => ChargedBack(accounts'[call'.client_id])
        /\ \A c \in DOMAIN accounts :
              ChargedBack(accounts[c]) =>
                /\ accounts[c].state.locked
                /\ ChargedBack(accounts'[c])
                /\ accounts'[c].state.locked
                /\ (call'.client_id = c /\ call'.transaction.kind.tag \in {"Deposit", "Withdrawal"})
                      => result' = "AccountLocked"
                /\ ( /\ call'.client_id = c
                     /\ call'.transaction.kind.tag = "Dispute"
                     /\ ~HasRecord(accounts[c].history, call'.transaction.id, "Dispute")
                     /\ RefersToDeposit(accounts[c].history, call'.transaction.id) )
                      => result' = "AccountLocked"
                /\ ( /\ call'.client_id = c
                     /\ call'.transaction.kind.tag = "Resolve"
                     /\ HasRecord(accounts[c].history, call'.transaction.id, "Dispute")
                     /\ RefersToDeposit(accounts[c].history, call'.transaction.id) )
                      => result' = "AccountLocked"
      ]_vars

\* C4 witness: after a successful Chargeback, a Dispute of another, undisputed
\* Deposit reached hold and was refused.
C4_Witness ==
    /\ ChargedBack(before)
    /\ Kind = "Dispute"
    /\ ~HasRecord(before.history, Tx.id, "Dispute")
    /\ RefersToDeposit(before.history, Tx.id)
    /\ before.state.available >= Referenced(before.history, Tx.id).kind.amount
    /\ result = "AccountLocked"

\* C5: a Dispute of an id that already has a Dispute record fails with
\* DisputeAlreadyExists and leaves the account and the history as they were.
C5_SecondDisputeRejected ==
    (Kind = "Dispute" /\ HasRecord(before.history, Tx.id, "Dispute"))
        => (result = "DisputeAlreadyExists" /\ Unchanged)

\* C5 witness: the id was disputed a second time while the account still had
\* the funds a second hold would take.
C5_Witness ==
    /\ Kind = "Dispute"
    /\ HasRecord(before.history, Tx.id, "Dispute")
    /\ ~before.state.locked
    /\ Referenced(before.history, Tx.id).kind.amount > 0
    /\ before.state.available >= Referenced(before.history, Tx.id).kind.amount
    /\ result = "DisputeAlreadyExists"

\* C6: a Resolve or Chargeback of an id without a Dispute record fails with
\* NoDispute and leaves the account (not locked by it) and the history as
\* they were.
C6_NoDisputeRejected ==
    (Kind \in {"Resolve", "Chargeback"} /\ ~HasRecord(before.history, Tx.id, "Dispute"))
        => (result = "NoDispute" /\ Unchanged)

\* C6 witness: a Chargeback of an undisputed Deposit was refused while funds
\* of another dispute, enough to cover it, were held.
C6_Witness ==
    /\ Kind = "Chargeback"
    /\ ~HasRecord(before.history, Tx.id, "Dispute")
    /\ RefersToDeposit(before.history, Tx.id)
    /\ Referenced(before.history, Tx.id).kind.amount > 0
    /\ before.state.held >= Referenced(before.history, Tx.id).kind.amount
    /\ result = "NoDispute"
    /\ ~After.state.locked

\* C7: on an unlocked account, the Dispute of an undisputed Deposit of amount
\* a moves a from available to held and is recorded when available >= a;
\* otherwise it fails with NegativeBalance and nothing changes.
C7_DisputeHoldsTheDeposit ==
    ( /\ Kind = "Dispute"
      /\ ~before.state.locked
      /\ ~HasRecord(before.history, Tx.id, "Dispute")
      /\ RefersToDeposit(before.history, Tx.id) )
    => LET a == Referenced(before.history, Tx.id).kind.amount IN
       IF before.state.available >= a
       THEN /\ result = "Ok"
            /\ After.state.available = before.state.available - a
            /\ After.state.held = before.state.held + a
            /\ After.state.available + After.state.held
                  = before.state.available + before.state.held
            /\ After.state.locked = FALSE
            /\ Recorded
       ELSE /\ result = "NegativeBalance"
            /\ Unchanged
            /\ ~HasRecord(After.history, Tx.id, "Dispute")

\* the last call was a Dispute that held the funds and was recorded
DisputeApplied == Kind = "Dispute" /\ result = "Ok" /\ Recorded

\* the last call was a Resolve that released the funds and was recorded
ResolveApplied == Kind = "Resolve" /\ result = "Ok" /\ Recorded

\* C8: a Resolve right after a successful Dispute of the same id succeeds,
\* restores available and held to what they were before the Dispute, leaves
\* the account unlocked and is recorded; a withdrawal of the released amount
\* right after it succeeds.
C8_DisputeResolveRoundTrip ==
    [][ /\ ( /\ DisputeApplied
             /\ call' = [client_id |-> Caller,
                         transaction |-> TransactionNew(Tx.id, Resolve)] )
           => /\ result' = "Ok"
              /\ accounts'[Caller].state.available = before.state.available
              /\ accounts'[Caller].state.held = before.state.held
              /\ accounts'[Caller].state.locked = FALSE
              /\ accounts'[Caller].history = Append(After.history, call'.transaction)
        /\ ( /\ ResolveApplied
             /\ call' = [client_id |-> Caller,
                         transaction |-> TransactionNew(call'.transaction.id,
                             Withdrawal(Referenced(After.history, Tx.id).kind.amount))] )
           => /\ result' = "Ok"
              /\ accounts'[Caller].state.available
                    = After.state.available - call'.transaction.kind.amount
      ]_vars

\* C8 witness: Dispute, Resolve and the withdrawal of the released, positive
\* amount were made one after the other.
C8_Witness ==
    /\ Kind = "Withdrawal"
    /\ result = "Ok"
    /\ Tx.kind.amount > 0
    /\ Len(before.history) >= 3
    /\ LET n == Len(before.history) IN
         /\ before.history[n].kind.tag = "Resolve"
         /\ before.history[n - 1].kind.tag = "Dispute"
         /\ before.history[n - 1].id = before.history[n].id
         /\ Referenced(before.history, before.history[n].id).kind.amount = Tx.kind.amount
         /\ before.state.held = 0
         /\ After.state.available = 0

\* C9: a Chargeback of an id with a Dispute record, whose Deposit has amount
\* a <= held, succeeds, takes a from held, leaves available, locks the
\* account and is recorded.
C9_ChargebackTakesHeldFunds ==
    ( /\ Kind = "Chargeback"
      /\ HasRecord(before.history, Tx.id, "Dispute")
      /\ RefersToDeposit(before.history, Tx.id)
      /\ before.state.held >= Referenced(before.history, Tx.id).kind.amount )
    => /\ result = "Ok"
       /\ After.state.held
            = before.state.held - Referenced(before.history, Tx.id).kind.amount
       /\ After.state.available = before.state.available
       /\ After.state.locked = TRUE
       /\ Recorded

\* C9 witness: a Chargeback took a positive amount from held.
C9_Witness ==
    /\ Kind = "Chargeback"
    /\ result = "Ok"
    /\ Recorded
    /\ ~before.state.locked
    /\ After.state.held < before.state.held

\* C10: a Dispute of an id that is not in the history, or that refers to a
\* record that is not a Deposit, returns Ok and changes nothing, locked or
\* not; no Dispute record is kept, so a Resolve or Chargeback of the id made
\* next fails with NoDispute.
C10_DisputeOfNoDepositIsNoOp ==
    (Kind = "Dispute" /\ ~RefersToDeposit(before.history, Tx.id))
    => /\ result = "Ok"
       /\ Unchanged
       /\ ~HasRecord(After.history, Tx.id, "Dispute")
       /\ process(accounts, Caller, TransactionNew(Tx.id, Resolve)).result = "NoDispute"
       /\ process(accounts, Caller, TransactionNew(Tx.id, Chargeback)).result = "NoDispute"

\* C10 witness: the disputed id refers to a Withdrawal, and a Deposit with the
\* same id comes later in the history.
C10_Witness ==
    /\ Kind = "Dispute"
    /\ HasId(before.history, Tx.id)
    /\ Referenced(before.history, Tx.id).kind.tag = "Withdrawal"
    /\ HasRecord(before.history, Tx.id, "Deposit")
    /\ result = "Ok"

\* C11: every process call leaves the client's history as it was or appends
\* exactly its transaction at the end; it appends only when it returns Ok.
C11_HistoryAppendOnly ==
    result # "None" =>
        /\ After.history = before.history \/ Recorded
        /\ Recorded => result = "Ok"
        /\ result # "Ok" => After.history = before.history
        /\ \A i \in 1..Len(before.history) :
              i <= Len(After.history) /\ After.history[i] = before.history[i]

\* C11 witness: a call that changed the account and returned an error left
\* the history alone.
C11_Witness ==
    /\ result = "NegativeBalance"
    /\ After.state # before.state
    /\ Len(before.history) >= 3
    /\ After.history = before.history

\* C12: process(c, tx) changes the AccountLog of no other client, and what it
\* returns and does to c's AccountLog depends on c's own AccountLog alone:
\* the same id used by two clients is handled for each on its own.
C12_ClientsIsolated ==
    [][ LET c   == call'.client_id
            own == IF c \in DOMAIN accounts THEN c :> accounts[c] ELSE << >>
            r   == process(own, c, call'.transaction)
        IN  /\ \A o \in DOMAIN accounts : o # c => accounts'[o] = accounts[o]
            /\ DOMAIN accounts' = DOMAIN accounts \cup {c}
            /\ result' = r.result
            /\ accounts'[c] = r.accounts[c]
      ]_vars

\* C12 witness: a client disputed an id that is a Deposit with available
\* funds in the other client's history and in no record of its own; the other
\* client's funds were not held.
C12_Witness ==
    /\ Kind = "Dispute"
    /\ ~HasId(before.history, Tx.id)
    /\ result = "Ok"
    /\ \E o \in DOMAIN accounts :
          /\ o # Caller
          /\ RefersToDeposit(accounts[o].history, Tx.id)
          /\ Referenced(accounts[o].history, Tx.id).kind.amount > 0
          /\ accounts[o].state.available
                >= Referenced(accounts[o].history, Tx.id).kind.amount
          /\ accounts[o].state.held = 0
    /\ After.state.held = 0

\* C13: a Withdrawal of a on an unlocked account succeeds iff a <= available;
\* then available decreases by a, held and locked stay and the record is
\* appended; otherwise it fails with NegativeBalance and nothing changes.
C13_WithdrawalWithinAvailable ==
    (Kind = "Withdrawal" /\ ~before.state.locked)
    => IF Tx.kind.amount <= before.state.available
       THEN /\ result = "Ok"
            /\ After.state.available = before.state.available - Tx.kind.amount
            /\ After.state.held = before.state.held
            /\ After.state.locked = FALSE
            /\ Recorded
       ELSE /\ result = "NegativeBalance"
            /\ Unchanged

\* C13 witness: a withdrawal that available plus held would cover, and
\* available alone does not, was refused.
C13_Witness ==
    /\ Kind = "Withdrawal"
    /\ ~before.state.locked
    /\ Tx.kind.amount > before.state.available
    /\ Tx.kind.amount <= before.state.available + before.state.held
    /\ result = "NegativeBalance"
    /\ Unchanged

\* C14: a Deposit of a >= 0 on an unlocked account succeeds, adds a to
\* available, leaves held and locked and is recorded; on a locked account it
\* fails with AccountLocked and nothing changes.
C14_DepositCreditsAvailable ==
    Kind = "Deposit"
    => IF ~before.state.locked
       THEN /\ result = "Ok"
            /\ After.state.available = before.state.available + Tx.kind.amount
            /\ After.state.held = before.state.held
            /\ After.state.locked = FALSE
            /\ Recorded
       ELSE /\ result = "AccountLocked"
            /\ Unchanged

\* C15: chargeback is not gated by the lock.  On a locked account the
\* Chargeback of a disputed Deposit of amount a <= held succeeds and takes a
\* from held; and when a > held the Chargeback fails with NegativeBalance
\* with locked already set to true.
C15_ChargebackIgnoresLock ==
    ( /\ Kind = "Chargeback"
      /\ HasRecord(before.history, Tx.id, "Dispute")
      /\ RefersToDeposit(before.history, Tx.id) )
    => LET a == Referenced(before.history, Tx.id).kind.amount IN
       /\ (before.state.locked /\ before.state.held >= a)
             => /\ result = "Ok"
                /\ After.state.held = before.state.held - a
                /\ After.state.available = before.state.available
                /\ After.state.locked = TRUE
       /\ a > before.state.held
             => /\ result = "NegativeBalance"
                /\ After.state.locked = TRUE
                /\ After.state.held = before.state.held
                /\ After.state.available = before.state.available
                /\ After.history = before.history

\* C15 witness: on an account locked by the Chargeback of one Deposit, the
\* Chargeback of another disputed Deposit took its amount from held.
C15_Witness ==
    /\ Kind = "Chargeback"
    /\ before.state.locked
    /\ \E i \in 1..Len(before.history) :
          before.history[i].kind.tag = "Chargeback" /\ before.history[i].id # Tx.id
    /\ ~HasRecord(before.history, Tx.id, "Chargeback")
    /\ ~HasRecord(before.history, Tx.id, "Resolve")
    /\ result = "Ok"
    /\ After.state.held < before.state.held

\* C16: every process call returns Ok or one of the typed errors; no call
\* panics, whatever the history and with amounts up to the largest Decimal.
C16_NoCallPanics ==
    result \in {"None", "Ok", "NegativeBalance", "AccountLocked",
                "DisputeAlreadyExists", "NoDispute"}

\* C19: the first process call of a client creates its account, with zero
\* balances and unlocked, whether or not the call succeeds; the known clients
\* are exactly those passed to process; and accounts() yields one Account for
\* each of them and no other, each the client's final state.
C19_OneAccountPerClient ==
    [][ /\ calls' = calls + 1 =>
            LET c == call'.client_id IN
            /\ DOMAIN accounts' = DOMAIN accounts \cup {c}
            /\ c \notin DOMAIN accounts =>
                 /\ before' = AccountLogNew(c)
                 /\ before'.state = [client_id |-> c, available |-> 0,
                                     held |-> 0, locked |-> FALSE]
                 /\ result' # "Ok" => accounts'[c] = AccountLogNew(c)
        /\ (snapshots'.some /\ ~snapshots.some) =>
            LET yielded == snapshots'.value IN
            /\ Len(yielded) = Cardinality(DOMAIN accounts)
            /\ \A c \in DOMAIN accounts :
                 /\ Cardinality({i \in 1..Len(yielded) : yielded[i].client_id = c}) = 1
                 /\ \E i \in 1..Len(yielded) : yielded[i] = accounts[c].state
            /\ \A i \in 1..Len(yielded) : yielded[i].client_id \in DOMAIN accounts
            /\ accounts' = accounts
      ]_vars

\* C19 witness: accounts() yielded two accounts, one of a client whose every
\* call failed and one of a client holding funds.
C19_Witness ==
    /\ snapshots.some
    /\ Len(snapshots.value) = 2
    /\ \E i, j \in 1..2 :
          /\ accounts[snapshots.value[i].client_id].history = << >>
          /\ result # "Ok"
          /\ snapshots.value[i] = AccountNew(snapshots.value[i].client_id)
          /\ snapshots.value[j].available > 0

\* C17: no failing transaction is fatal to a batch run: once the rows are
\* folded into accounts, the run has a snapshot for every client of the input.
C17_NoErrorIsFatal ==
    client_accounts.some =>
        /\ client_accounts.value.ok
        /\ {client_accounts.value.value[i].client_id :
                i \in DOMAIN client_accounts.value.value} = DOMAIN transactions_index

\* the transactions kept for a client, none when it has no entry
Kept(index, client) == IF client \in DOMAIN index THEN index[client] ELSE << >>

\* a row is valid: a deposit or a withdrawal has an amount that is not
\* negative, any other row is valid as it is
ValidRow(r) ==
    r.type \in {"Deposit", "Withdrawal"} => (r.amount.some /\ r.amount.value >= 0)

\* C18: a deposit or withdrawal row is accepted iff its amount is present and
\* not negative; a dispute, resolve or chargeback row is always accepted and
\* its transaction carries no amount; an accepted row is appended to its
\* client's transactions and a rejected row reaches no client's transactions.
C18_RowValidation ==
    [][ rows_read' = rows_read + 1 =>
          LET r == row' IN
          /\ \A c \in DOMAIN transactions_index' \ {r.client} :
                /\ c \in DOMAIN transactions_index
                /\ transactions_index'[c] = transactions_index[c]
          /\ ~ValidRow(r) =>
                Kept(transactions_index', r.client) = Kept(transactions_index, r.client)
          /\ ValidRow(r) =>
                \E transaction \in {Kept(transactions_index', r.client)
                                        [Len(Kept(transactions_index', r.client))]} :
                   /\ transactions_index'[r.client]
                         = Append(Kept(transactions_index, r.client), transaction)
                   /\ transaction.id = r.tx
                   /\ transaction.kind.tag = r.type
                   /\ r.type \in {"Dispute", "Resolve", "Chargeback"}
                         => DOMAIN transaction.kind = {"tag"}
                   /\ r.type \in {"Deposit", "Withdrawal"}
                         => transaction.kind.amount >= 0
      ]_vars

\* C18 witness: a deposit with a negative amount has just been dropped, after
\* a withdrawal without amount was dropped too and a dispute that came with
\* an amount was kept without it.
C18_Witness ==
    /\ row = TransactionRow("Deposit", Some(-10), 1, 1)
    /\ rows_read = 3
    /\ 1 \in DOMAIN transactions_index
    /\ transactions_index[1] = <<TransactionNew(1, Dispute)>>

\* C20: every written row has total = available + held, and its client,
\* available, held and locked are those of the account it was written from;
\* a run that ends without panic has written a row for every account, and
\* the only account to stop the writing is one whose sum is beyond the
\* largest Decimal.
C20_OutputTotal ==
    output.some =>
        LET built == client_accounts.value.value IN
        /\ Len(output.value) <= Len(built)
        /\ \A i \in DOMAIN output.value :
              LET out     == output.value[i]
                  account == built[i] IN
              /\ out.total = out.available + out.held
              /\ out.total = Decimal_from(account.available + account.held)
              /\ out.client = account.client_id
              /\ out.available = Decimal_from(account.available)
              /\ out.held = Decimal_from(account.held)
              /\ out.locked = account.locked
        /\ output.result = "Ok" => Len(output.value) = Len(built)
        /\ output.result = "Panic" =>
              /\ Len(output.value) < Len(built)
              /\ built[Len(output.value) + 1].available
                    + built[Len(output.value) + 1].held > DecimalMax

\* C20 witness: a written row with funds available and funds held.
C20_Witness ==
    /\ output.some
    /\ \E i \in DOMAIN output.value :
          /\ output.value[i].available = 10
          /\ output.value[i].held = 10
          /\ output.value[i].total = 20

\* the first Deposit of the history that carries the id
FirstDeposit(history, id) ==
    history[CHOOSE i \in 1..Len(history) :
               /\ history[i].id = id
               /\ history[i].kind.tag = "Deposit"
               /\ \A j \in 1..(i - 1) :
                     ~(history[j].id = id /\ history[j].kind.tag = "Deposit")]

\* C21: when the history holds several records with the id T, a Dispute of T
\* on an unlocked account acts on the amount of the first Deposit with id T,
\* also when a record of another kind with id T precedes that Deposit: with
\* the amount available and no Dispute of T on record, it holds that amount
\* and is recorded.
C21_DisputeActsOnFirstDeposit ==
    ( /\ Kind = "Dispute"
      /\ ~before.state.locked
      /\ ~HasRecord(before.history, Tx.id, "Dispute")
      /\ HasRecord(before.history, Tx.id, "Deposit")
      /\ before.state.available >= FirstDeposit(before.history, Tx.id).kind.amount )
    => LET a == FirstDeposit(before.history, Tx.id).kind.amount IN
       /\ result = "Ok"
       /\ After.state.available = before.state.available - a
       /\ After.state.held = before.state.held + a
       /\ Recorded

\* what record i of the history adds to the client's funds: a Deposit its
\* amount, a Withdrawal and a Chargeback take away theirs, the Chargeback's
\* being the amount of the Deposit its id refers to
Contribution(history, i) ==
    CASE history[i].kind.tag = "Deposit"    -> history[i].kind.amount
      [] history[i].kind.tag = "Withdrawal" -> 0 - history[i].kind.amount
      [] history[i].kind.tag = "Chargeback" ->
            IF RefersToDeposit(history, history[i].id)
            THEN 0 - Referenced(history, history[i].id).kind.amount
            ELSE 0
      [] OTHER -> 0

RECURSIVE Funds(_, _)
\* the funds the first n records of the history account for
Funds(history, n) ==
    IF n = 0 THEN 0 ELSE Funds(history, n - 1) + Contribution(history, n)

\* C22: for every client, available + held is the sum of the Deposits of the
\* history, less its Withdrawals, less the deposits its Chargebacks refer to.
C22_FundsConserved ==
    \A c \in DOMAIN accounts :
        accounts[c].state.available + accounts[c].state.held
            = Funds(accounts[c].history, Len(accounts[c].history))

\* the ids with a Dispute on record that no Resolve or Chargeback has settled
OpenDisputes(history) ==
    {id \in {history[i].id : i \in 1..Len(history)} :
        /\ HasRecord(history, id, "Dispute")
        /\ ~HasRecord(history, id, "Resolve")
        /\ ~HasRecord(history, id, "Chargeback")}

RECURSIVE DisputedSum(_, _)
\* the sum of the amounts of the deposits the ids refer to
DisputedSum(history, ids) ==
    IF ids = {} THEN 0
    ELSE LET id == CHOOSE x \in ids : TRUE IN
         (IF RefersToDeposit(history, id)
          THEN Referenced(history, id).kind.amount ELSE 0)
            + DisputedSum(history, ids \ {id})

\* C23: for every client, held is the sum of the amounts of the deposits
\* under a Dispute that no Resolve or Chargeback has settled.
C23_HeldIsOpenDisputes ==
    \A c \in DOMAIN accounts :
        accounts[c].state.held
            = DisputedSum(accounts[c].history, OpenDisputes(accounts[c].history))

\* C24: a client's account is locked exactly when its history holds a
\* Chargeback record.
C24_LockedIffChargeback ==
    \A c \in DOMAIN accounts :
        accounts[c].state.locked
            <=> \E i \in 1..Len(accounts[c].history) :
                    accounts[c].history[i].kind.tag = "Chargeback"

\* record i of the history has a record of the given kind and the same id
\* before it
PrecededBy(history, i, tag) ==
    \E j \in 1..(i - 1) : history[j].id = history[i].id /\ history[j].kind.tag = tag

\* the history is well formed: a Resolve or Chargeback record comes after a
\* Dispute of its id, a Dispute record after a Deposit of its id that is the
\* first record with that id, and no id has two Dispute records
WellFormed(history) ==
    \A i \in 1..Len(history) :
        /\ history[i].kind.tag \in {"Resolve", "Chargeback"}
              => PrecededBy(history, i, "Dispute")
        /\ history[i].kind.tag = "Dispute"
              => /\ PrecededBy(history, i, "Deposit")
                 /\ Referenced(history, history[i].id).kind.tag = "Deposit"
                 /\ ~PrecededBy(history, i, "Dispute")

\* C25: every client's history is well formed, and a Resolve or Chargeback
\* that passed the dispute-exists test always finds a Deposit: it never takes
\* the branch that returns Ok and does nothing.
C25_HistoryWellFormed ==
    /\ \A c \in DOMAIN accounts : WellFormed(accounts[c].history)
    /\ ( /\ Kind \in {"Resolve", "Chargeback"}
         /\ HasRecord(before.history, Tx.id, "Dispute") )
       => /\ RefersToDeposit(before.history, Tx.id)
          /\ result # "NoDispute"
          /\ result = "Ok" => Recorded

\* C25 witness: a Resolve or Chargeback passed the dispute-exists test for an
\* id that a Withdrawal carries too, and was recorded, in a history where the
\* first record of another id is no Deposit.
C25_Witness ==
    /\ Kind \in {"Resolve", "Chargeback"}
    /\ HasRecord(before.history, Tx.id, "Dispute")
    /\ HasRecord(before.history, Tx.id, "Withdrawal")
    /\ result = "Ok"
    /\ Recorded
    /\ \E id \in TransactionIds :
          /\ HasId(before.history, id)
          /\ ~RefersToDeposit(before.history, id)

\* C26: once a client's account is locked, no process call changes its
\* available balance or increases its held balance; held decreases only
\* through a Chargeback, and a Deposit, Withdrawal, Dispute or Resolve leaves
\* the locked account and its history as they were.
C26_LockedAccountFrozen ==
    [][ \A c \in DOMAIN accounts :
          accounts[c].state.locked =>
            /\ accounts'[c].state.available = accounts[c].state.available
            /\ accounts'[c].state.held <= accounts[c].state.held
            /\ accounts'[c].state.held < accounts[c].state.held
                  => (call'.client_id = c /\ call'.transaction.kind.tag = "Chargeback")
            /\ ( /\ calls' = calls + 1
                 /\ call'.client_id = c
                 /\ call'.transaction.kind.tag
                       \in {"Deposit", "Withdrawal", "Dispute", "Resolve"} )
                  => /\ accounts'[c] = accounts[c]
                     /\ call'.transaction.kind.tag \in {"Deposit", "Withdrawal"}
                           => result' = "AccountLocked"
      ]_vars

\* C26 witness: on a locked account with funds still held for an open
\* dispute, a Resolve of that dispute was refused and changed nothing.
C26_Witness ==
    /\ before.state.locked
    /\ before.state.held > 0
    /\ Kind = "Resolve"
    /\ HasRecord(before.history, Tx.id, "Dispute")
    /\ ~HasRecord(before.history, Tx.id, "Chargeback")
    /\ result = "AccountLocked"
    /\ Unchanged

RECURSIVE process_each(_, _, _, _)
\* the processor after process was called for the client with transaction i
\* and those after it, one call after the other, whatever each call returned
process_each(accts, client_id, transactions, i) ==
    IF i > Len(transactions)
    THEN accts
    ELSE process_each(process(accts, client_id, transactions[i]).accounts,
                      client_id, transactions, i + 1)

\* the account of the client once a new processor has processed the list
Incremental(client_id, transactions) ==
    process_each(entry_or_insert(PaymentProcessorNew, client_id),
                 client_id, transactions, 1)[client_id].state

\* C27: every account that a batch run builds with Ok is the account that a
\* new processor holds for the client after processing the same transactions
\* in order, going on past the calls that fail.
C27_BatchAgreesWithProcess ==
    (client_accounts.some /\ client_accounts.value.ok) =>
        \A i \in DOMAIN client_accounts.value.value :
            LET account == client_accounts.value.value[i] IN
            account = Incremental(account.client_id,
                                  transactions_index[account.client_id])

====
